---------------------------- MODULE Spec2Model ----------------------------
(***************************************************************************)
(* A model of the geometry core of pyghelp.py: the class RectDivider (an   *)
(* iterator over tile placements of a small pygame Rect inside a large     *)
(* one) and the class FloatRect (a rectangle with float fields kept by     *)
(* property setters).                                                      *)
(*                                                                         *)
(* A pygame Rect is a record [x, y, w, h] of integers.  The caller's       *)
(* arguments of RectDivider(...) are drawn in Init; RectDivider_init is    *)
(* the constructor and RectDivider_next one call of next().                *)
(***************************************************************************)
EXTENDS Integers, Sequences, FiniteSets, TLC

\* ------------------------------------------------------------------ bounds

\* The caller's outer rectangle has width and height in 0..MaxOuter.
MaxOuter == 3
\* The caller's inner rectangle has width and height in 0..MaxInner.
MaxInner == 2
\* The caller's inner rectangle starts up to MaxOff units before outer's
\* left/top edge.
MaxOff == 1
\* The caller calls next() at most MaxExtra times more once it has raised
\* StopIteration for the first time.
MaxExtra == 2

\* ------------------------------------------------------------ pygame.Rect

Rect(x, y, w, h) == [x |-> x, y |-> y, w |-> w, h |-> h]

\* Rect.left = value, Rect.top = value: move, keep the size.
SetLeft(r, value) == [r EXCEPT !.x = value]
SetTop(r, value) == [r EXCEPT !.y = value]
\* Rect.right = value, Rect.bottom = value: move so that edge lands on value.
SetRight(r, value) == [r EXCEPT !.x = value - r.w]
SetBottom(r, value) == [r EXCEPT !.y = value - r.h]
RectRight(r) == r.x + r.w
RectBottom(r) == r.y + r.h

\* One axis of pygame's Rect.clamp: a rectangle at least as large as the
\* argument is centred on it (C integer division of non-negative sizes),
\* otherwise it is moved the least distance that brings it inside.
ClampAxis(pos, len, apos, alen) ==
    IF len >= alen THEN apos + (alen \div 2) - (len \div 2)
    ELSE IF pos < apos THEN apos
    ELSE IF pos + len > apos + alen THEN apos + alen - len
    ELSE pos

\* self.inner.clamp(self.outer): a moved copy of r, of r's size.
Clamp(r, a) ==
    [r EXCEPT !.x = ClampAxis(r.x, r.w, a.x, a.w),
              !.y = ClampAxis(r.y, r.h, a.y, a.h)]

\* A plausible slip: the tile clamped in place, so that it always compares equal.
NotFitsNever(r, a) == FALSE

\* clamped != self.inner
NotFits(r, a) == Clamp(r, a) # r

\* ------------------------------------------------------------ RectDivider

VARIABLES
    argOuter,        \* the caller's outer Rect
    argInner,        \* the caller's inner Rect
    argDirection,    \* the caller's direction token
    argHorizontal,   \* the caller's horizontal token
    argVertical,     \* the caller's vertical token
    argZigzag,       \* the caller's zigzag flag
    phase,           \* "new": not constructed, "ready": instance, "failed": raised
    err,             \* the exception the constructor raised, or "none"
    outer,           \* self.outer
    inner,           \* self.inner
    zigzag,          \* self.zigzag
    d,               \* self.d: "h", "v", or "" while unset
    h,               \* self.h: 1, -1, or 0 while unset
    v,               \* self.v: 1, -1, or 0 while unset
    returned_start,  \* self.returned_start
    returned,        \* what each call of next() gave: a Rect, or StopIteration
    fr,              \* a FloatRect's fields
    frLast,          \* the FloatRect setter called last
    frSized          \* which of width and height has been set since __init__

rdVars == <<argOuter, argInner, argDirection, argHorizontal, argVertical,
            argZigzag, phase, err, outer, inner, zigzag, d, h, v,
            returned_start, returned>>
frVars == <<fr, frLast, frSized>>
vars == <<rdVars, frVars>>

\* What a call of next() that raised StopIteration is recorded as.
StopIteration == [x |-> 0, y |-> 0, w |-> -1, h |-> -1]

\* A field not yet assigned.
NoRect == [x |-> 0, y |-> 0, w |-> 0, h |-> 0]

Directions == {"horizontal", "vertical", "diagonal"}
Horizontals == {"left", "right", "centre"}
Verticals == {"up", "down", "level"}

\* A plausible slip: the trimming line left out.
TrimNone(osize, isize) == osize

\* self.outer.w -= self.outer.w % self.inner.w  (the new value of the size)
Trim(osize, isize) == osize - (osize % isize)

\* A plausible slip: anything that is not 'vertical' taken as 'horizontal'.
DirectionLax(direction) == IF direction = "vertical" THEN "v" ELSE "h"

\* The value of self.d for a direction token; "" stands for raise dir_err.
Direction(direction) ==
    IF direction = "vertical" THEN "v"
    ELSE IF direction = "horizontal" THEN "h"
    ELSE ""

\* The value of self.h for a horizontal token; 0 stands for raise dir_err.
Horizontal(horizontal) ==
    IF horizontal = "left" THEN -1
    ELSE IF horizontal = "right" THEN 1
    ELSE 0

\* The value of self.v for a vertical token; 0 stands for raise dir_err.
Vertical(vertical) ==
    IF vertical = "up" THEN -1
    ELSE IF vertical = "down" THEN 1
    ELSE 0

\* __init__: the fields it leaves and the exception it raises ("none": it
\* returns).  The two trimming lines run before the tokens are looked at, and
\* x % 0 raises ZeroDivisionError.
Construct(o, i, direction, horizontal, vertical, zz) ==
    LET base == [outer |-> o, inner |-> i, zigzag |-> zz,
                 d |-> "", h |-> 0, v |-> 0, err |-> "none"]
    IN  IF i.w = 0 THEN [base EXCEPT !.err = "ZeroDivisionError"]
        ELSE LET s1 == [base EXCEPT !.outer.w = Trim(o.w, i.w)]
        IN  IF i.h = 0 THEN [s1 EXCEPT !.err = "ZeroDivisionError"]
        ELSE LET s2 == [s1 EXCEPT !.outer.h = Trim(o.h, i.h)]
        IN  IF Direction(direction) = "" THEN [s2 EXCEPT !.err = "ValueError"]
        ELSE LET s3 == [s2 EXCEPT !.d = Direction(direction)]
        IN  IF Horizontal(horizontal) = 0 THEN [s3 EXCEPT !.err = "ValueError"]
        ELSE LET s4 == [s3 EXCEPT !.h = Horizontal(horizontal)]
        IN  IF Vertical(vertical) = 0 THEN [s4 EXCEPT !.err = "ValueError"]
        ELSE [s4 EXCEPT !.v = Vertical(vertical)]

\* A plausible slip: a step of one unit instead of one tile.
AdvanceUnit(pos, sign, len) == pos + sign

\* self.inner.left += self.h * self.inner.w  (the new coordinate)
Advance(pos, sign, len) == pos + sign * len

\* Plausible slips: the sign reversed whatever zigzag is, or never.
FlipAlways(zz, sign) == -sign
FlipNever(zz, sign) == sign

\* if self.zigzag: self.h *= -1
Flip(zz, sign) == IF zz THEN -sign ELSE sign

\* A plausible slip: the row always restarted from outer's left edge.
ResetHLeft(r, a, sign) == SetLeft(r, a.x)

\* if self.h == 1: self.inner.left = self.outer.left
\* else: self.inner.right = self.outer.right
ResetH(r, a, sign) == IF sign = 1 THEN SetLeft(r, a.x) ELSE SetRight(r, RectRight(a))

\* A plausible slip: the column always restarted from outer's top edge.
ResetVTop(r, a, sign) == SetTop(r, a.y)

\* if self.v == 1: self.inner.top = self.outer.top
\* else: self.inner.bottom = self.outer.bottom
ResetV(r, a, sign) == IF sign = 1 THEN SetTop(r, a.y) ELSE SetBottom(r, RectBottom(a))

\* The d == 'h' branch of next(): the new inner and h.
StepH(r, a, sh, sv, zz) ==
    LET moved == SetLeft(r, Advance(r.x, sh, r.w))
    IN  IF NotFits(moved, a)
        THEN LET down == SetTop(moved, Advance(moved.y, sv, moved.h))
                 nh == Flip(zz, sh)
             IN  [inner |-> ResetH(down, a, nh), h |-> nh, v |-> sv]
        ELSE [inner |-> moved, h |-> sh, v |-> sv]

\* A plausible slip: the else branch carries over with the sign of the wrong
\* axis.
StepVCrossSign(r, a, sh, sv, zz) ==
    LET moved == SetTop(r, Advance(r.y, sv, r.h))
    IN  IF NotFits(moved, a)
        THEN LET across == SetLeft(moved, Advance(moved.x, sv, moved.w))
                 nv == Flip(zz, sv)
             IN  [inner |-> ResetV(across, a, nv), h |-> sh, v |-> nv]
        ELSE [inner |-> moved, h |-> sh, v |-> sv]

\* The else branch of next(): the new inner and v.
StepV(r, a, sh, sv, zz) ==
    LET moved == SetTop(r, Advance(r.y, sv, r.h))
    IN  IF NotFits(moved, a)
        THEN LET across == SetLeft(moved, Advance(moved.x, sh, moved.w))
                 nv == Flip(zz, sv)
             IN  [inner |-> ResetV(across, a, nv), h |-> sh, v |-> nv]
        ELSE [inner |-> moved, h |-> sh, v |-> sv]

\* A plausible slip: the tile returned without the last check.
ResultUnchecked(r, a) == r

\* The end of next(): raise StopIteration unless the tile fits, else return it.
Result(r, a) == IF NotFits(r, a) THEN StopIteration ELSE r

\* ----------------------------------------------------- the caller's inputs

\* The caller passes these arguments.
Args(o, i, direction, horizontal, vertical, zz) ==
    /\ argOuter = o
    /\ argInner = i
    /\ argDirection = direction
    /\ argHorizontal = horizontal
    /\ argVertical = vertical
    /\ argZigzag = zz

\* Where the outer rectangles of the tiling and validation inputs lie.
Origin == [x |-> 1, y |-> 2]

OuterRects ==
    {Rect(Origin.x, Origin.y, w, hh) : w \in 0..MaxOuter, hh \in 0..MaxOuter}

\* Inner rectangles of positive size, at every position from MaxOff before
\* outer's left/top edge to its largest right/bottom edge.
TileRects ==
    {Rect(x, y, w, hh) :
        x \in (Origin.x - MaxOff)..(Origin.x + MaxOuter),
        y \in (Origin.y - MaxOff)..(Origin.y + MaxOuter),
        w \in 1..MaxInner, hh \in 1..MaxInner}

\* Every recognised token, every outer size, every tile size and position.
TilingInputs ==
    \E o \in OuterRects, i \in TileRects :
    \E dir \in {"horizontal", "vertical"}, hor \in {"left", "right"} :
    \E ver \in {"up", "down"}, zz \in BOOLEAN :
        Args(o, i, dir, hor, ver, zz)

\* Every token, recognised or not, and every inner size, zero included.
ValidationInputs ==
    \E o \in OuterRects, w \in 0..MaxInner, hh \in 0..MaxInner :
    \E dir \in Directions, hor \in Horizontals :
    \E ver \in Verticals, zz \in BOOLEAN :
        Args(o, Rect(o.x, o.y, w, hh), dir, hor, ver, zz)

\* The rectangles of the documented examples, under every recognised token.
ExampleInputs ==
    \E w \in {90, 100} :
    \E dir \in {"horizontal", "vertical"}, hor \in {"left", "right"} :
    \E ver \in {"up", "down"}, zz \in BOOLEAN :
        Args(Rect(0, 0, w, 100), Rect(0, 0, 50, 50), dir, hor, ver, zz)

RDIdle ==
    /\ phase = "new"
    /\ err = "none"
    /\ outer = NoRect
    /\ inner = NoRect
    /\ zigzag = FALSE
    /\ d = ""
    /\ h = 0
    /\ v = 0
    /\ returned_start = FALSE
    /\ returned = <<>>

RDInit ==
    /\ TilingInputs \/ ValidationInputs \/ ExampleInputs
    /\ RDIdle

\* The calls of next() so far that raised StopIteration.
Stops == {k \in DOMAIN returned : returned[k] = StopIteration}

\* The caller gives up after CallCap calls: one for each tile the trimmed
\* outer can hold (one at least), one for the caller's inner, one for
\* StopIteration, and MaxExtra more.
AtLeastOne(n) == IF n > 1 THEN n ELSE 1
CallCap ==
    AtLeastOne(outer.w \div inner.w) * AtLeastOne(outer.h \div inner.h)
        + 2 + MaxExtra

\* The caller may call next() again.
MayCall ==
    /\ Len(returned) < CallCap
    /\ \A k \in Stops : Len(returned) - k < MaxExtra

\* A plausible slip: the caller's Rect kept instead of a copy of it, so that
\* what is done to self's Rect is done to the caller's.
CallerAliased(callerRect, selfRect) == selfRect

\* self.outer = outer.copy(), self.inner = inner.copy(): the caller's Rect
\* once self's Rect has been assigned to; self holds a copy, so it is as before.
CallerAfter(callerRect, selfRect) == callerRect

\* RectDivider(outer, inner, direction, horizontal, vertical, zigzag)
RectDivider_init ==
    /\ phase = "new"
    /\ LET s == Construct(argOuter, argInner, argDirection, argHorizontal,
                          argVertical, argZigzag)
       IN  /\ phase' = IF s.err = "none" THEN "ready" ELSE "failed"
           /\ err' = s.err
           /\ outer' = s.outer
           /\ inner' = s.inner
           /\ zigzag' = s.zigzag
           /\ d' = s.d
           /\ h' = s.h
           /\ v' = s.v
           /\ argOuter' = CallerAfter(argOuter, s.outer)
           /\ argInner' = CallerAfter(argInner, s.inner)
    /\ UNCHANGED <<argDirection, argHorizontal, argVertical,
                   argZigzag, returned_start, returned>>
    /\ UNCHANGED frVars

\* next(), first call: return self.inner as it stands.
RectDivider_next_start ==
    /\ phase = "ready"
    /\ MayCall
    /\ ~returned_start
    /\ returned_start' = TRUE
    /\ returned' = Append(returned, inner)
    /\ UNCHANGED <<argOuter, argInner, argDirection, argHorizontal, argVertical,
                   argZigzag, phase, err, outer, inner, zigzag, d, h, v>>
    /\ UNCHANGED frVars

\* next(), later calls: step, then raise StopIteration or return self.inner.
RectDivider_next_step ==
    /\ phase = "ready"
    /\ MayCall
    /\ returned_start
    /\ LET s == IF d = "h" THEN StepH(inner, outer, h, v, zigzag)
                           ELSE StepV(inner, outer, h, v, zigzag)
       IN  /\ inner' = s.inner
           /\ h' = s.h
           /\ v' = s.v
           /\ returned' = Append(returned, Result(s.inner, outer))
           /\ argInner' = CallerAfter(argInner, s.inner)
    /\ UNCHANGED <<argOuter, argDirection, argHorizontal, argVertical,
                   argZigzag, phase, err, outer, zigzag, d, returned_start>>
    /\ UNCHANGED frVars

\* -------------------------------------------------------------- FloatRect

(***************************************************************************)
(* Floats are modelled exactly.  Every field of fr holds twice the float   *)
(* it stands for, as an integer: positions are multiples of 1/2 and sizes  *)
(* are whole numbers, so that a / 2.0 and every sum and difference below   *)
(* is exact in binary floating point.                                      *)
(***************************************************************************)

\* Positions passed by the caller: -MaxPos/2 .. MaxPos/2 in steps of 1/2.
MaxPos == 1
\* Sizes passed by the caller: 0 .. MaxSize in steps of 1.
MaxSize == 2

FRPositions == (-MaxPos)..MaxPos
FRSizes == {2 * k : k \in 0..MaxSize}
\* What the compound setters are given: the two ends of FRPositions.
FRAnchorPositions == {-MaxPos, MaxPos}

\* a / 2.0, flt / 2
Half(a) == a \div 2

\* A plausible slip: the halves as __init__ stores them, added to the edges
\* the way every setter adds them.
FloatRectBySetterRule(topleft, size) ==
    [left |-> topleft[1], top |-> topleft[2],
     width |-> size[1], height |-> size[2],
     half_width |-> Half(size[2]), half_height |-> Half(size[1]),
     centerx |-> topleft[1] + Half(size[2]),
     centery |-> topleft[2] + Half(size[1]),
     right |-> topleft[1] + size[1], bottom |-> topleft[2] + size[2]]

\* FloatRect.__init__(topleft, size)
FloatRect(topleft, size) ==
    LET left == topleft[1]
        top == topleft[2]
        width == size[1]
        height == size[2]
        \* self._half_height, self._half_width = [a / 2.0 for a in size]
        half_height == Half(size[1])
        half_width == Half(size[2])
    IN  [left |-> left, top |-> top, width |-> width, height |-> height,
         half_width |-> half_width, half_height |-> half_height,
         centerx |-> left + half_height, centery |-> top + half_width,
         right |-> left + width, bottom |-> top + height]

\* The getters of the compound properties.
size_fget(self) == <<self.width, self.height>>
topleft_fget(self) == <<self.left, self.top>>
bottomleft_fget(self) == <<self.left, self.bottom>>
topright_fget(self) == <<self.right, self.top>>
bottomright_fget(self) == <<self.right, self.bottom>>
midtop_fget(self) == <<self.centerx, self.top>>
midleft_fget(self) == <<self.left, self.centery>>
midbottom_fget(self) == <<self.centerx, self.bottom>>
midright_fget(self) == <<self.right, self.centery>>

\* A plausible slip: the left setter refreshes the wrong centre.
left_fset_centery(self, flt) ==
    [self EXCEPT !.right = self.right + (flt - self.left),
                 !.left = flt,
                 !.centery = flt + self.half_width]

\* FloatRect.left = value
left_fset(self, flt) ==
    [self EXCEPT !.right = self.right + (flt - self.left),
                 !.left = flt,
                 !.centerx = flt + self.half_width]

\* A plausible slip: right moves alone and drags neither left nor centerx.
right_fset_alone(self, flt) ==
    [self EXCEPT !.right = flt]

\* FloatRect.right = value
right_fset(self, flt) ==
    LET left == self.left + (flt - self.right)
    IN  [self EXCEPT !.left = left,
                     !.right = flt,
                     !.centerx = left + self.half_width]

\* FloatRect.top = value
top_fset(self, flt) ==
    [self EXCEPT !.bottom = self.bottom + (flt - self.top),
                 !.top = flt,
                 !.centery = flt + self.half_height]

\* FloatRect.bottom = value
bottom_fset(self, flt) ==
    LET top == self.top + (flt - self.bottom)
    IN  [self EXCEPT !.top = top,
                     !.bottom = flt,
                     !.centery = top + self.half_height]

\* FloatRect.centerx = value
centerx_fset(self, flt) ==
    [self EXCEPT !.left = flt - self.half_width,
                 !.right = flt + self.half_width,
                 !.centerx = flt]

\* FloatRect.centery = value
centery_fset(self, flt) ==
    [self EXCEPT !.top = flt - self.half_height,
                 !.bottom = flt + self.half_height,
                 !.centery = flt]

\* A plausible slip: the width setter forgets to refresh _half_width.
width_fset_stale_half(self, flt) ==
    LET s == [self EXCEPT !.width = flt]
    IN  centerx_fset(s, s.centerx)

\* FloatRect.width = value: ends with self.centerx = self.centerx
width_fset(self, flt) ==
    LET s == [self EXCEPT !.width = flt, !.half_width = Half(flt)]
    IN  centerx_fset(s, s.centerx)

\* FloatRect.height = value: ends with self.centery = self.centery
height_fset(self, flt) ==
    LET s == [self EXCEPT !.height = flt, !.half_height = Half(flt)]
    IN  centery_fset(s, s.centery)

\* The setters of the compound properties: self.a, self.b = value sets a,
\* then b.
size_fset(self, value) ==
    height_fset(width_fset(self, value[1]), value[2])

topleft_fset(self, value) ==
    top_fset(left_fset(self, value[1]), value[2])

bottomleft_fset(self, value) ==
    bottom_fset(left_fset(self, value[1]), value[2])

topright_fset(self, value) ==
    top_fset(right_fset(self, value[1]), value[2])

bottomright_fset(self, value) ==
    bottom_fset(right_fset(self, value[1]), value[2])

midtop_fset(self, value) ==
    top_fset(centerx_fset(self, value[1]), value[2])

midleft_fset(self, value) ==
    centery_fset(left_fset(self, value[1]), value[2])

midbottom_fset(self, value) ==
    bottom_fset(centerx_fset(self, value[1]), value[2])

midright_fset(self, value) ==
    centery_fset(right_fset(self, value[1]), value[2])

FRInit ==
    /\ \E l \in FRPositions, t \in FRPositions, w \in FRSizes, hh \in FRSizes :
          fr = FloatRect(<<l, t>>, <<w, hh>>)
    /\ frLast = "none"
    /\ frSized = {}

FloatRect_left ==
    /\ \E value \in FRPositions : fr' = left_fset(fr, value)
    /\ frLast' = "left"
    /\ UNCHANGED frSized
    /\ UNCHANGED rdVars

FloatRect_right ==
    /\ \E value \in FRPositions : fr' = right_fset(fr, value)
    /\ frLast' = "right"
    /\ UNCHANGED frSized
    /\ UNCHANGED rdVars

FloatRect_top ==
    /\ \E value \in FRPositions : fr' = top_fset(fr, value)
    /\ frLast' = "top"
    /\ UNCHANGED frSized
    /\ UNCHANGED rdVars

FloatRect_bottom ==
    /\ \E value \in FRPositions : fr' = bottom_fset(fr, value)
    /\ frLast' = "bottom"
    /\ UNCHANGED frSized
    /\ UNCHANGED rdVars

FloatRect_centerx ==
    /\ \E value \in FRPositions : fr' = centerx_fset(fr, value)
    /\ frLast' = "centerx"
    /\ UNCHANGED frSized
    /\ UNCHANGED rdVars

FloatRect_centery ==
    /\ \E value \in FRPositions : fr' = centery_fset(fr, value)
    /\ frLast' = "centery"
    /\ UNCHANGED frSized
    /\ UNCHANGED rdVars

FloatRect_width ==
    /\ \E value \in FRSizes : fr' = width_fset(fr, value)
    /\ frLast' = "width"
    /\ frSized' = frSized \cup {"width"}
    /\ UNCHANGED rdVars

FloatRect_height ==
    /\ \E value \in FRSizes : fr' = height_fset(fr, value)
    /\ frLast' = "height"
    /\ frSized' = frSized \cup {"height"}
    /\ UNCHANGED rdVars

FloatRect_size ==
    /\ \E a \in FRSizes, b \in FRSizes : fr' = size_fset(fr, <<a, b>>)
    /\ frLast' = "size"
    /\ frSized' = {"width", "height"}
    /\ UNCHANGED rdVars

FloatRect_topleft ==
    /\ \E a \in FRAnchorPositions, b \in FRAnchorPositions : fr' = topleft_fset(fr, <<a, b>>)
    /\ frLast' = "topleft"
    /\ UNCHANGED frSized
    /\ UNCHANGED rdVars

FloatRect_bottomleft ==
    /\ \E a \in FRAnchorPositions, b \in FRAnchorPositions : fr' = bottomleft_fset(fr, <<a, b>>)
    /\ frLast' = "bottomleft"
    /\ UNCHANGED frSized
    /\ UNCHANGED rdVars

FloatRect_topright ==
    /\ \E a \in FRAnchorPositions, b \in FRAnchorPositions : fr' = topright_fset(fr, <<a, b>>)
    /\ frLast' = "topright"
    /\ UNCHANGED frSized
    /\ UNCHANGED rdVars

FloatRect_bottomright ==
    /\ \E a \in FRAnchorPositions, b \in FRAnchorPositions : fr' = bottomright_fset(fr, <<a, b>>)
    /\ frLast' = "bottomright"
    /\ UNCHANGED frSized
    /\ UNCHANGED rdVars

FloatRect_midtop ==
    /\ \E a \in FRAnchorPositions, b \in FRAnchorPositions : fr' = midtop_fset(fr, <<a, b>>)
    /\ frLast' = "midtop"
    /\ UNCHANGED frSized
    /\ UNCHANGED rdVars

FloatRect_midleft ==
    /\ \E a \in FRAnchorPositions, b \in FRAnchorPositions : fr' = midleft_fset(fr, <<a, b>>)
    /\ frLast' = "midleft"
    /\ UNCHANGED frSized
    /\ UNCHANGED rdVars

FloatRect_midbottom ==
    /\ \E a \in FRAnchorPositions, b \in FRAnchorPositions : fr' = midbottom_fset(fr, <<a, b>>)
    /\ frLast' = "midbottom"
    /\ UNCHANGED frSized
    /\ UNCHANGED rdVars

FloatRect_midright ==
    /\ \E a \in FRAnchorPositions, b \in FRAnchorPositions : fr' = midright_fset(fr, <<a, b>>)
    /\ frLast' = "midright"
    /\ UNCHANGED frSized
    /\ UNCHANGED rdVars

\* No FloatRect is in play while a RectDivider is followed, and conversely.
FRIdle ==
    /\ fr = FloatRect(<<0, 0>>, <<0, 0>>)
    /\ frLast = "none"
    /\ frSized = {}
RDNone == Args(NoRect, NoRect, "horizontal", "right", "down", FALSE) /\ RDIdle

\* ---------------------------------------------------------- specifications

\* A RectDivider is constructed and next() is called on it.
Init == RDInit /\ FRIdle
Next == RectDivider_init \/ RectDivider_next_start \/ RectDivider_next_step
Spec == Init /\ [][Next]_vars

\* The caller goes on calling next() for as long as MayCall allows.
FairSpec == Spec /\ WF_vars(Next)

\* A FloatRect is constructed and its setters are called.
FloatRectInit == FRInit /\ RDNone
FloatRectNext ==
    \/ FloatRect_left \/ FloatRect_right \/ FloatRect_top \/ FloatRect_bottom
    \/ FloatRect_centerx \/ FloatRect_centery \/ FloatRect_width \/ FloatRect_height
    \/ FloatRect_size \/ FloatRect_topleft \/ FloatRect_bottomleft
    \/ FloatRect_topright \/ FloatRect_bottomright \/ FloatRect_midtop
    \/ FloatRect_midleft \/ FloatRect_midbottom \/ FloatRect_midright
FloatRectSpec == FloatRectInit /\ [][FloatRectNext]_vars

\* What the next n calls of next() give on a divider with attributes s, of
\* which the first returns inner as it is if none was made before.
RECURSIVE NextCalls(_, _, _)
NextCalls(s, started, n) ==
    IF n = 0 THEN <<>>
    ELSE IF ~started THEN <<s.inner>> \o NextCalls(s, TRUE, n - 1)
    ELSE LET t == IF s.d = "h"
                  THEN StepH(s.inner, s.outer, s.h, s.v, s.zigzag)
                  ELSE StepV(s.inner, s.outer, s.h, s.v, s.zigzag)
         IN  <<Result(t.inner, s.outer)>>
                \o NextCalls([s EXCEPT !.inner = t.inner, !.h = t.h, !.v = t.v],
                             TRUE, n - 1)

\* What the first n calls of next() give on a newly built divider.
FirstCalls(o, i, direction, horizontal, vertical, zz, n) ==
    NextCalls(Construct(o, i, direction, horizontal, vertical, zz), FALSE, n)

\* ------------------------------------------------------------------ claims

\* The number of calls of next() so far, and the calls that returned a tile.
Calls == Len(returned)
IsTile(k) == k \in 1..Calls /\ returned[k] # StopIteration
\* The calls before the first StopIteration.
BeforeStop == {k \in 1..Calls : \A j \in Stops : k < j}
\* The first call that raised StopIteration was call n.
FirstStopAt(n) == n \in Stops /\ \A j \in Stops : n <= j

\* Columns and rows of tiles the caller's outer rectangle holds.
Columns == argOuter.w \div argInner.w
Rows == argOuter.h \div argInner.h

\* The caller's inner lies at the top-left corner of the caller's outer, which
\* is a whole number (at least one) of tiles wide and high.
ExactGridFromTopLeft ==
    /\ phase = "ready"
    /\ argInner.x = argOuter.x /\ argInner.y = argOuter.y
    /\ argOuter.w % argInner.w = 0 /\ argOuter.h % argInner.h = 0
    /\ Columns >= 1 /\ Rows >= 1

\* The tile in column c and row r (from 0) of the caller's outer rectangle.
Cell(c, r) ==
    Rect(argOuter.x + c * argInner.w, argOuter.y + r * argInner.h,
         argInner.w, argInner.h)

\* C1 (as claimed): after construction and after every scalar set, the fields
\* read back satisfy right = left + width, bottom = top + height,
\* centerx = left + width/2 and centery = top + height/2.
C1_AnchorsConsistent ==
    /\ fr.right = fr.left + fr.width
    /\ fr.bottom = fr.top + fr.height
    /\ fr.centerx = fr.left + Half(fr.width)
    /\ fr.centery = fr.top + Half(fr.height)

\* C2: horizontal, right, down, no zigzag, inner at outer's top-left corner,
\* outer a whole grid of Columns by Rows tiles: call k (k <= Columns * Rows)
\* returns the tile of column (k-1) mod Columns and row (k-1) div Columns, and
\* call Columns * Rows + 1 raises StopIteration.
C2_RowMajor ==
    ( /\ ExactGridFromTopLeft
      /\ argDirection = "horizontal" /\ argHorizontal = "right"
      /\ argVertical = "down" /\ ~argZigzag )
    => \A k \in 1..Calls :
          /\ k <= Columns * Rows
                => returned[k] = Cell((k - 1) % Columns, (k - 1) \div Columns)
          /\ k = Columns * Rows + 1 => returned[k] = StopIteration

\* C2's case: the documented example has run to its end.
C2_Witness ==
    /\ argOuter = Rect(0, 0, 100, 100) /\ argInner = Rect(0, 0, 50, 50)
    /\ argDirection = "horizontal" /\ argHorizontal = "right"
    /\ argVertical = "down" /\ ~argZigzag
    /\ returned = <<Rect(0, 0, 50, 50), Rect(50, 0, 50, 50), Rect(0, 50, 50, 50),
                    Rect(50, 50, 50, 50), StopIteration>>

\* C3: as C2 with zigzag: rows are walked alternately left to right and right
\* to left, each row starting in the column where the row before ended; call
\* Columns * Rows + 1 raises StopIteration.
C3_Boustrophedon ==
    ( /\ ExactGridFromTopLeft
      /\ argDirection = "horizontal" /\ argHorizontal = "right"
      /\ argVertical = "down" /\ argZigzag )
    => \A k \in 1..Calls :
          /\ k <= Columns * Rows
                => LET r == (k - 1) \div Columns
                       c == (k - 1) % Columns
                   IN  returned[k] =
                          Cell(IF r % 2 = 0 THEN c ELSE Columns - 1 - c, r)
          /\ k = Columns * Rows + 1 => returned[k] = StopIteration

\* C3's case: the documented example has run to its end.
C3_Witness ==
    /\ argOuter = Rect(0, 0, 100, 100) /\ argInner = Rect(0, 0, 50, 50)
    /\ argDirection = "horizontal" /\ argHorizontal = "right"
    /\ argVertical = "down" /\ argZigzag
    /\ returned = <<Rect(0, 0, 50, 50), Rect(50, 0, 50, 50), Rect(50, 50, 50, 50),
                    Rect(0, 50, 50, 50), StopIteration>>

\* r lies inside a: no part of it sticks out.
Inside(r, a) ==
    /\ a.x <= r.x /\ r.x + r.w <= a.x + a.w
    /\ a.y <= r.y /\ r.y + r.h <= a.y + a.h

\* The trimmed outer holds at least one tile.
NonEmptyGrid == outer.w >= inner.w /\ outer.h >= inner.h

\* C4 (as claimed): every tile next() returns, the first call's included,
\* is left where it is by clamping it into the trimmed outer.
C4_EveryTileInside ==
    phase = "ready" => \A k \in 1..Calls :
        IsTile(k) => Clamp(returned[k], outer) = returned[k]

\* C4 (amended): every tile returned by a call after the first is left where
\* it is by clamping it into the trimmed outer, and lies inside it when the
\* trimmed outer holds at least one tile; the first call returns the caller's
\* inner as it stands.
C4_LaterTilesInside ==
    phase = "ready" =>
        /\ \A k \in 2..Calls :
              IsTile(k) =>
                 /\ Clamp(returned[k], outer) = returned[k]
                 /\ NonEmptyGrid => Inside(returned[k], outer)
        /\ Calls >= 1 => returned[1] = argInner

\* C4's case: the first tile does not fit and two later calls returned tiles.
C4_Witness ==
    /\ phase = "ready" /\ Calls >= 3
    /\ Clamp(returned[1], outer) # returned[1]
    /\ IsTile(2) /\ IsTile(3)

\* C5 (as claimed): after a call of next() raised StopIteration, every later
\* call raises StopIteration.
C5_StopIsFinal ==
    \A k \in Stops : \A j \in 1..Calls : j > k => returned[j] = StopIteration

\* The caller's inner starts at the corner of the trimmed outer that the
\* configured signs start from.
AtStartCorner ==
    /\ phase = "ready"
    /\ argHorizontal = "right" => argInner.x = outer.x
    /\ argHorizontal = "left" => RectRight(argInner) = RectRight(outer)
    /\ argVertical = "down" => argInner.y = outer.y
    /\ argVertical = "up" => RectBottom(argInner) = RectBottom(outer)

\* The cells of the trimmed outer.
GridCells ==
    {Rect(outer.x + c * argInner.w, outer.y + r * argInner.h,
          argInner.w, argInner.h) : c \in 0..(Columns - 1), r \in 0..(Rows - 1)}

\* From the start corner, the tiles returned before StopIteration are cells
\* of the trimmed outer, no cell twice, and when StopIteration comes they are
\* all the Columns * Rows cells.
VisitsEveryCellOnce ==
    /\ \A k \in BeforeStop : returned[k] \in GridCells
    /\ \A k, j \in BeforeStop : k # j => returned[k] # returned[j]
    /\ \A n \in 1..Calls :
          FirstStopAt(n) =>
             /\ n - 1 = Columns * Rows
             /\ {returned[k] : k \in 1..(n - 1)} = GridCells

\* C6 (as claimed): for each of the 16 configurations, started from the
\* matching corner of the trimmed outer, the tiles visit every cell once.
C6_CoversGrid == AtStartCorner => VisitsEveryCellOnce

\* C6 (amended): the same, when the trimmed outer holds at least one tile.
C6_CoversNonEmptyGrid == (AtStartCorner /\ NonEmptyGrid) => VisitsEveryCellOnce

\* C6's case: a grid of at least 2 by 2 walked to its end, upwards and
\* leftwards, columns first, with zigzag.
C6_Witness ==
    /\ AtStartCorner /\ Columns >= 2 /\ Rows >= 2
    /\ argDirection = "vertical" /\ argHorizontal = "left"
    /\ argVertical = "up" /\ argZigzag
    /\ Stops # {}

\* The interiors of r and s share no point.
Disjoint(r, s) ==
    \/ r.x + r.w <= s.x \/ s.x + s.w <= r.x
    \/ r.y + r.h <= s.y \/ s.y + s.h <= r.y

\* C7: the tiles returned before StopIteration by two different calls have
\* disjoint interiors, and each has the caller's inner's width and height.
C7_NoOverlap ==
    phase = "ready" =>
        /\ \A k, j \in BeforeStop : k # j => Disjoint(returned[k], returned[j])
        /\ \A k \in BeforeStop :
              returned[k].w = argInner.w /\ returned[k].h = argInner.h

\* C7's case: an inner that starts where it does not fit, tiles two units
\* wide, and four tiles returned.
C7_Witness ==
    /\ phase = "ready" /\ Cardinality(BeforeStop) >= 4
    /\ argInner.w = 2
    /\ Clamp(argInner, outer) # argInner

\* C8: on every instance, repeated calls of next() come to a call that raises
\* StopIteration.
C8_Terminates == (phase = "ready") ~> (Stops # {})

\* The measure behind C8: while no call has raised StopIteration, the calls
\* made are at most one for the caller's inner and one for each tile the
\* trimmed outer can hold (one at least), so StopIteration comes before the
\* caller's CallCap is reached.
C8_WithinCells ==
    (phase = "ready" /\ Stops = {}) => Calls + MaxExtra < CallCap

\* C8's case: an instance on a grid of at least 2 by 2 returned tiles and then
\* raised StopIteration.
C8_Witness ==
    /\ phase = "ready" /\ Columns >= 2 /\ Rows >= 2
    /\ \E n \in 1..Calls : FirstStopAt(n) /\ n >= 5

\* The tokens the caller passed are all recognised.
TokensRecognised ==
    /\ argDirection \in {"horizontal", "vertical"}
    /\ argHorizontal \in {"left", "right"}
    /\ argVertical \in {"up", "down"}

C10_Trimmed ==
    phase = "ready" =>
        /\ outer = Rect(argOuter.x, argOuter.y,
                        argOuter.w - (argOuter.w % argInner.w),
                        argOuter.h - (argOuter.h % argInner.h))
        /\ ( /\ argOuter = Rect(0, 0, 90, 100) /\ argInner = Rect(0, 0, 50, 50)
             /\ argDirection = "horizontal" /\ argHorizontal = "right"
             /\ argVertical = "down" )
           => /\ outer = Rect(0, 0, 50, 100)
              /\ \A k \in 1..Calls :
                    /\ k = 1 => returned[k] = Rect(0, 0, 50, 50)
                    /\ k = 2 => returned[k] = Rect(0, 50, 50, 50)
                    /\ k = 3 => returned[k] = StopIteration

\* C10's case: the documented example has run to its end.
C10_Witness ==
    /\ argOuter = Rect(0, 0, 90, 100) /\ argInner = Rect(0, 0, 50, 50)
    /\ argDirection = "horizontal" /\ argHorizontal = "right"
    /\ argVertical = "down" /\ ~argZigzag
    /\ outer = Rect(0, 0, 50, 100)
    /\ returned = <<Rect(0, 0, 50, 50), Rect(0, 50, 50, 50), StopIteration>>

\* C11: no step, neither the construction with its trimming nor a call of
\* next(), changes the outer and inner rectangles the caller passed.
C11_CallerRectsUntouched ==
    [][argOuter' = argOuter /\ argInner' = argInner]_vars

\* C11's case: construction trimmed self.outer on both axes and calls of
\* next() moved self.inner on both axes.
C11_Witness ==
    /\ phase = "ready" /\ Calls >= 3
    /\ outer.w # argOuter.w /\ outer.h # argOuter.h
    /\ inner.x # argInner.x /\ inner.y # argInner.y

\* What can be read from a FloatRect through its scalar properties.
Readable(self) ==
    <<self.left, self.top, self.right, self.bottom,
      self.centerx, self.centery, self.width, self.height>>

\* C12: writing back to any scalar field the value just read from it leaves
\* all eight readable fields as they were.
C12_SetToReadIsNoop ==
    /\ Readable(left_fset(fr, fr.left)) = Readable(fr)
    /\ Readable(right_fset(fr, fr.right)) = Readable(fr)
    /\ Readable(top_fset(fr, fr.top)) = Readable(fr)
    /\ Readable(bottom_fset(fr, fr.bottom)) = Readable(fr)
    /\ Readable(centerx_fset(fr, fr.centerx)) = Readable(fr)
    /\ Readable(centery_fset(fr, fr.centery)) = Readable(fr)
    /\ Readable(width_fset(fr, fr.width)) = Readable(fr)
    /\ Readable(height_fset(fr, fr.height)) = Readable(fr)

\* C13: a call of the centerx setter with c leaves width as it was and gives
\* left = c - width/2 and right = c + width/2; likewise the centery setter.
C13_CentreSetsEdges ==
    [][/\ frLast' = "centerx" =>
            /\ fr'.width = fr.width
            /\ fr'.left = fr'.centerx - Half(fr'.width)
            /\ fr'.right = fr'.centerx + Half(fr'.width)
       /\ frLast' = "centery" =>
            /\ fr'.height = fr.height
            /\ fr'.top = fr'.centery - Half(fr'.height)
            /\ fr'.bottom = fr'.centery + Half(fr'.height)]_vars

\* C14: a call of the width setter leaves the value read from centerx as it
\* was and moves left and right by equal and opposite amounts; likewise the
\* height setter with centery, top and bottom.
C14_ResizeAboutCentre ==
    [][/\ frLast' = "width" =>
            /\ fr'.centerx = fr.centerx
            /\ fr'.left - fr.left = fr.right - fr'.right
       /\ frLast' = "height" =>
            /\ fr'.centery = fr.centery
            /\ fr'.top - fr.top = fr.bottom - fr'.bottom]_vars

\* C15: a call of an edge setter leaves width and height as they were and
\* moves the opposite edge by as much as the edge that was set.
C15_EdgeSetTranslates ==
    [][frLast' \in {"left", "right", "top", "bottom"} =>
          /\ fr'.width = fr.width
          /\ fr'.height = fr.height
          /\ fr'.right - fr.right = fr'.left - fr.left
          /\ fr'.bottom - fr.bottom = fr'.top - fr.top]_vars

\* C15's case: right has just been set on a rectangle that is not square and
\* has been moved away from where it was constructed.
C15_Witness ==
    /\ frLast = "right"
    /\ fr.width # fr.height
    /\ fr.left < -MaxPos

\* C16: right after construction, before any setter, the edges and centres
\* agree with left, top, width and height, square or not, and every compound
\* anchor reads as the pair of its two components.
C16_FreshConsistent ==
    frLast = "none" =>
        /\ fr.right = fr.left + fr.width
        /\ fr.bottom = fr.top + fr.height
        /\ fr.centerx = fr.left + Half(fr.width)
        /\ fr.centery = fr.top + Half(fr.height)
        /\ topleft_fget(fr) = <<fr.left, fr.top>>
        /\ topright_fget(fr) = <<fr.left + fr.width, fr.top>>
        /\ bottomleft_fget(fr) = <<fr.left, fr.top + fr.height>>
        /\ bottomright_fget(fr) = <<fr.left + fr.width, fr.top + fr.height>>
        /\ midtop_fget(fr) = <<fr.left + Half(fr.width), fr.top>>
        /\ midleft_fget(fr) = <<fr.left, fr.top + Half(fr.height)>>
        /\ midbottom_fget(fr) = <<fr.left + Half(fr.width), fr.top + fr.height>>
        /\ midright_fget(fr) = <<fr.left + fr.width, fr.top + Half(fr.height)>>

\* C16's case: a rectangle just constructed away from the origin, with
\* positive width and height that differ.
C16_Witness ==
    /\ frLast = "none"
    /\ fr.width > 0 /\ fr.height > 0 /\ fr.width # fr.height
    /\ fr.left # 0 /\ fr.top # 0

\* Setting a compound property to <<a, b>> gives what its two scalar setters
\* give one after the other, whichever goes first.
AsScalarsEitherWay(compound_fset(_, _), x_fset(_, _), y_fset(_, _), values) ==
    \A a \in values, b \in values :
        /\ compound_fset(fr, <<a, b>>) = y_fset(x_fset(fr, a), b)
        /\ compound_fset(fr, <<a, b>>) = x_fset(y_fset(fr, b), a)

XFields(self) == <<self.left, self.right, self.centerx, self.width>>
YFields(self) == <<self.top, self.bottom, self.centery, self.height>>

\* C17: every compound setter, size included, does what its two scalar
\* setters do in sequence, in either order, and a setter of one axis changes
\* no field of the other axis.
C17_CompoundIsTwoScalars ==
    /\ AsScalarsEitherWay(size_fset, width_fset, height_fset, FRSizes)
    /\ AsScalarsEitherWay(topleft_fset, left_fset, top_fset, FRAnchorPositions)
    /\ AsScalarsEitherWay(bottomleft_fset, left_fset, bottom_fset, FRAnchorPositions)
    /\ AsScalarsEitherWay(topright_fset, right_fset, top_fset, FRAnchorPositions)
    /\ AsScalarsEitherWay(bottomright_fset, right_fset, bottom_fset, FRAnchorPositions)
    /\ AsScalarsEitherWay(midtop_fset, centerx_fset, top_fset, FRAnchorPositions)
    /\ AsScalarsEitherWay(midleft_fset, left_fset, centery_fset, FRAnchorPositions)
    /\ AsScalarsEitherWay(midbottom_fset, centerx_fset, bottom_fset, FRAnchorPositions)
    /\ AsScalarsEitherWay(midright_fset, right_fset, centery_fset, FRAnchorPositions)
    /\ \A value \in FRPositions :
          /\ YFields(left_fset(fr, value)) = YFields(fr)
          /\ YFields(right_fset(fr, value)) = YFields(fr)
          /\ YFields(centerx_fset(fr, value)) = YFields(fr)
          /\ XFields(top_fset(fr, value)) = XFields(fr)
          /\ XFields(bottom_fset(fr, value)) = XFields(fr)
          /\ XFields(centery_fset(fr, value)) = XFields(fr)
    /\ \A value \in FRSizes :
          /\ YFields(width_fset(fr, value)) = YFields(fr)
          /\ XFields(height_fset(fr, value)) = XFields(fr)

\* C17's case: a compound setter has just acted on a rectangle whose centres
\* are off on both axes.
C17_Witness ==
    /\ frLast = "midright"
    /\ fr.centerx # fr.left + Half(fr.width)
    /\ fr.centery # fr.top + Half(fr.height)

\* C18: from the first time width is set, right = left + width and
\* centerx = left + width/2 hold after every setter; likewise bottom and
\* centery from the first time height is set.
C18_SizedAxisConsistent ==
    /\ "width" \in frSized =>
          /\ fr.right = fr.left + fr.width
          /\ fr.centerx = fr.left + Half(fr.width)
    /\ "height" \in frSized =>
          /\ fr.bottom = fr.top + fr.height
          /\ fr.centery = fr.top + Half(fr.height)

\* C18's case: width was set on a rectangle that is not square, height was
\* not, and other setters of either axis have been called since.
C18_Witness ==
    /\ frSized = {"width"}
    /\ frLast = "topleft"
    /\ fr.width # fr.height
    /\ fr.centery # fr.top + Half(fr.height)

Abs(n) == IF n < 0 THEN -n ELSE n

\* Tiles r and s lie one tile-length apart on one axis and level on the other.
EdgeAdjacent(r, s) ==
    \/ Abs(r.x - s.x) = r.w /\ r.y = s.y
    \/ r.x = s.x /\ Abs(r.y - s.y) = r.h

\* Call j returned the next tile after the tile of call i.
NextTile(i, j) ==
    /\ i < j /\ IsTile(i) /\ IsTile(j)
    /\ \A k \in (i + 1)..(j - 1) : ~IsTile(k)

\* No tile returned so far is a jump away from the tile returned before it.
NoJump ==
    \A i, j \in 1..Calls :
        NextTile(i, j) => EdgeAdjacent(returned[i], returned[j])

\* A call of next() keeps the sign of the secondary axis, and changes the sign
\* of the primary axis only when one more step along it does not fit.
SignsKept ==
    IF d = "h"
    THEN /\ v' = v
         /\ h' # h => NotFits(SetLeft(inner, inner.x + h * inner.w), outer)
    ELSE /\ h' = h
         /\ v' # v => NotFits(SetTop(inner, inner.y + v * inner.h), outer)

\* C19 (as claimed): with zigzag, inner starting at the corner of the trimmed
\* outer that matches the signs, every call of next() leaves the returned
\* tiles free of jumps, keeps the secondary sign and flips the primary sign
\* only on exhaustion of the primary axis.
C19_ZigzagNeverJumps ==
    [][(phase = "ready" /\ zigzag /\ AtStartCorner /\ Calls' = Calls + 1)
          => SignsKept /\ NoJump']_vars

\* C19 (amended): the same where the trimmed outer holds at least one tile.
C19_ZigzagNeverJumpsOnGrid ==
    [][(phase = "ready" /\ zigzag /\ AtStartCorner /\ NonEmptyGrid
          /\ Calls' = Calls + 1)
          => SignsKept /\ NoJump']_vars

\* C19's case: a vertical zigzag from the bottom-right corner has climbed
\* the first column, turned, and is on its way down the second.
C19_Witness ==
    /\ phase = "ready" /\ zigzag /\ AtStartCorner /\ NonEmptyGrid
    /\ argDirection = "vertical" /\ argHorizontal = "left" /\ argVertical = "up"
    /\ v = 1 /\ Stops = {} /\ Calls >= 4
    /\ returned[Calls].x < argInner.x /\ returned[Calls].y > outer.y

\* A rectangle, or what next() gave, with x and y and width and height swapped.
Transpose(r) == [x |-> r.y, y |-> r.x, w |-> r.h, h |-> r.w]
\* The signs swapped with the axes: right <-> down, left <-> up.
TransposeSign(token) ==
    CASE token = "right" -> "down" [] token = "down" -> "right"
      [] token = "left" -> "up" [] token = "up" -> "left"

\* What the horizontal divider on the transposed rectangles and signs gives
\* in as many calls as were made, transposed back.
TransposedRun ==
    LET run == FirstCalls(Transpose(argOuter), Transpose(argInner), "horizontal",
                          TransposeSign(argVertical), TransposeSign(argHorizontal),
                          argZigzag, Calls)
    IN  [k \in 1..Calls |-> Transpose(run[k])]

\* C20: a vertical divider gives at every call, StopIteration included, the
\* transpose of what the horizontal divider on the transposed outer and
\* inner with the transposed signs gives at that call.
C20_VerticalIsTransposed ==
    (phase = "ready" /\ argDirection = "vertical") => returned = TransposedRun

\* C20's case: a vertical divider on a grid that is not square, with a tile
\* that is not square, has run into StopIteration after at least four tiles.
C20_Witness ==
    /\ phase = "ready" /\ argDirection = "vertical"
    /\ outer.w # outer.h /\ argInner.w # argInner.h
    /\ Stops # {} /\ \A k \in 1..4 : IsTile(k)

\* The calls made so far gave what NextCalls computes for them.
CallsAsComputed ==
    phase = "ready" =>
        returned = FirstCalls(argOuter, argInner, argDirection, argHorizontal,
                              argVertical, argZigzag, Calls)

=============================================================================
